---- MODULE Spec2Model ----
(***************************************************************************)
(* Model of src/server.js: the two POST /api/withdraw handlers of the file *)
(* (the gateway handler of lines 310-390 with its Stripe and Flutterwave   *)
(* adapters and its Pusher notification, and the demo handler of lines     *)
(* 49-148), as they run on the Node.js event loop: a handler runs without  *)
(* interruption from one await to the next, and any number of requests are *)
(* in flight at once.                                                      *)
(***************************************************************************)
EXTENDS Integers, Sequences, FiniteSets

\* Bounds of the model.
MaxClock == 1      \* Date.now() reads 0..MaxClock
MaxRand == 2       \* Math.random() suffixes 1..MaxRand

\* Program constants.
demoBalance == 100000
MinAmount == 100
MaxAmount == 1000000
BankFee == 50
OtherFee == 25

(***************************************************************************)
(* JavaScript values of the request body: undefined, a number (integers    *)
(* only), NaN, or a string held as a sequence of one-character strings.    *)
(***************************************************************************)
Undef == [t |-> "undef", n |-> 0, s |-> <<>>]
NaN == [t |-> "nan", n |-> 0, s |-> <<>>]
Num(k) == [t |-> "num", n |-> k, s |-> <<>>]
Str(cs) == [t |-> "str", n |-> 0, s |-> cs]

DecDigits == <<"0", "1", "2", "3", "4", "5", "6", "7", "8", "9">>
HexLetters == <<"a", "b", "c", "d", "e", "f">>
HexCapitals == <<"A", "B", "C", "D", "E", "F">>

IsDigit(c) == \E i \in 1..10 : DecDigits[i] = c
DigitVal(c) == (CHOOSE i \in 1..10 : DecDigits[i] = c) - 1
IsHexDigit(c) ==
    \/ IsDigit(c)
    \/ \E i \in 1..6 : HexLetters[i] = c \/ HexCapitals[i] = c
HexVal(c) ==
    IF IsDigit(c) THEN DigitVal(c)
    ELSE 9 + (CHOOSE i \in 1..6 : HexLetters[i] = c \/ HexCapitals[i] = c)

\* The value of the digits cs in the given radix (most significant first).
RECURSIVE RadixValue(_, _)
RadixValue(cs, radix) ==
    IF cs = <<>> THEN 0
    ELSE RadixValue(SubSeq(cs, 1, Len(cs) - 1), radix) * radix
         + HexVal(cs[Len(cs)])

\* Number::toString of a non-negative integer.
RECURSIVE NatToString(_)
NatToString(k) ==
    IF k < 10 THEN <<DecDigits[k + 1]>>
    ELSE NatToString(k \div 10) \o <<DecDigits[(k % 10) + 1]>>

\* ToStr, as string concatenation and parseFloat apply it.
ToStr(v) ==
    CASE v.t = "undef" -> <<"u", "n", "d", "e", "f", "i", "n", "e", "d">>
      [] v.t = "nan" -> <<"N", "a", "N">>
      [] v.t = "str" -> v.s
      [] v.t = "num" ->
           IF v.n < 0 THEN <<"-">> \o NatToString(-v.n) ELSE NatToString(v.n)

\* ToNumber, as the relational and arithmetic operators apply it: the
\* StringNumericLiteral grammar restricted to decimal and hexadecimal
\* integer literals (no white space, sign, fraction or exponent occurs in
\* the strings of the model).
ToNumber(v) ==
    CASE v.t = "undef" -> NaN
      [] v.t = "nan" -> NaN
      [] v.t = "num" -> v
      [] v.t = "str" ->
           IF v.s = <<>> THEN Num(0)
           ELSE IF /\ Len(v.s) >= 3
                   /\ v.s[1] = "0"
                   /\ v.s[2] \in {"x", "X"}
                   /\ \A i \in 3..Len(v.s) : IsHexDigit(v.s[i])
                THEN Num(RadixValue(SubSeq(v.s, 3, Len(v.s)), 16))
           ELSE IF \A i \in 1..Len(v.s) : IsDigit(v.s[i])
                THEN Num(RadixValue(v.s, 10))
           ELSE NaN

\* The length of the longest prefix of cs made of decimal digits.
RECURSIVE DigitPrefixLen(_)
DigitPrefixLen(cs) ==
    IF cs = <<>> \/ ~IsDigit(cs[1]) THEN 0
    ELSE 1 + DigitPrefixLen(Tail(cs))

\* parseFloat: ToStr, then the longest prefix that is a decimal literal
\* (an optional minus sign and digits); NaN when there is none.
parseFloat(v) ==
    LET cs == ToStr(v)
        neg == cs # <<>> /\ cs[1] = "-"
        body == IF neg THEN Tail(cs) ELSE cs
        k == DigitPrefixLen(body)
        m == RadixValue(SubSeq(body, 1, k), 10)
    IN IF k = 0 THEN NaN ELSE Num(IF neg THEN -m ELSE m)

\* !v
Falsy(v) ==
    \/ v.t \in {"undef", "nan"}
    \/ v.t = "num" /\ v.n = 0
    \/ v.t = "str" /\ v.s = <<>>

\* v < k and v > k for a number k: false when ToNumber(v) is NaN.
LessThan(v, k) == ToNumber(v).t = "num" /\ ToNumber(v).n < k
GreaterThan(v, k) == ToNumber(v).t = "num" /\ ToNumber(v).n > k

\* v - k for a number k.
Minus(v, k) == IF v.t = "num" THEN Num(v.n - k) ELSE NaN

\* v || d
OrElse(v, d) == IF Falsy(v) THEN d ELSE v

\* /^[0-9]{10}$/.test(v)
TenDigits(v) ==
    LET cs == ToStr(v)
    IN Len(cs) = 10 /\ \A i \in 1..10 : IsDigit(cs[i])

(***************************************************************************)
(* Requests.  A string the code parses (amount, phoneNumber) is held       *)
(* character by character; a string the code only compares or passes on is *)
(* held as one fragment.                                                   *)
(***************************************************************************)
S(x) == Str(<<x>>)

Amounts ==
    { Undef, Num(99), Num(100), Num(1000000), Num(1000001),
      Str(<<"0", "x", "4", "0", "0">>) }
Methods == { Undef, S("bank"), S("mpesa") }
Phones ==
    { Undef, Str(<<"1", "2", "3", "4", "5">>),
      Str(<<"0", "7", "1", "2", "3", "4", "5", "6", "7", "8">>) }
Names == { Undef, S("John Doe") }
Accounts == { Undef, S("1234567890") }
PaymentMethods == { Undef, S("stripe"), S("flutterwave"), S("paypal") }

\* req.body when no body was parsed: destructuring it throws a TypeError.
AbsentBody ==
    [ present |-> FALSE, amount |-> Undef, method |-> Undef,
      accountDetails |-> Undef, withdrawalMethod |-> Undef,
      accountNumber |-> Undef, accountName |-> Undef, phoneNumber |-> Undef,
      paymentMethod |-> Undef ]

\* Bodies sent to the gateway handler (fields of line 312).
GatewayBodies ==
    { [ AbsentBody EXCEPT !.present = TRUE, !.amount = a,
          !.withdrawalMethod = m, !.accountNumber = c, !.accountName = n,
          !.phoneNumber = p, !.paymentMethod = g ] :
        a \in Amounts, m \in Methods, c \in Accounts, n \in Names,
        p \in Phones, g \in PaymentMethods }

\* Bodies sent to the demo handler (fields of line 51).
DemoBodies ==
    { [ AbsentBody EXCEPT !.present = TRUE, !.amount = a, !.method = m,
          !.accountDetails = c, !.accountName = n, !.phoneNumber = p ] :
        a \in Amounts, m \in Methods, c \in Accounts, n \in Names,
        p \in Phones }

\* The requests in flight at once: request 1 draws its body from the whole
\* products above, request 2 from the bodies of GatewayTraffic and
\* DemoTraffic.
Reqs == {1, 2}

GatewayTraffic ==
    { [ AbsentBody EXCEPT !.present = TRUE, !.amount = Num(100),
          !.withdrawalMethod = S("bank"), !.accountNumber = S("1234567890"),
          !.accountName = S("John Doe"), !.paymentMethod = S("stripe") ] }

DemoTraffic ==
    { [ AbsentBody EXCEPT !.present = TRUE, !.amount = Num(100),
          !.method = S("mpesa"),
          !.phoneNumber =
              Str(<<"0", "7", "1", "2", "3", "4", "5", "6", "7", "8">>) ] }

GatewayInputs(r) ==
    IF r = 1 THEN GatewayBodies \cup {AbsentBody} ELSE GatewayTraffic
DemoInputs(r) ==
    IF r = 1 THEN DemoBodies \cup {AbsentBody} ELSE DemoTraffic

(***************************************************************************)
(* Identifiers, upstream payloads and responses.                           *)
(***************************************************************************)
NoId == [ prefix |-> "", time |-> 0, suffix |-> 0, upper |-> FALSE ]

NoDetails ==
    [ gateway |-> "", id |-> "", status |-> "", clientSecret |-> "",
      reference |-> NoId ]

NoResponse ==
    [ status |-> 0, keys |-> {}, success |-> FALSE, message |-> <<>>,
      transactionId |-> NoId, reference |-> NoId, paymentGateway |-> Undef,
      amount |-> Undef, fees |-> Undef, netAmount |-> Undef,
      method |-> Undef, paymentDetails |-> NoDetails, state |-> "" ]

\* res.status(code).json({success: false, message})
Failure(code, message) ==
    [ NoResponse EXCEPT !.status = code, !.keys = {"success", "message"},
        !.message = message ]

(***************************************************************************)
(* The gateway handler, lines 310-390, and its adapters, lines 392-453.    *)
(***************************************************************************)
\* validate without the minimum check of lines 315-320.
validateNoMinimum(body) ==
    IF GreaterThan(body.amount, MaxAmount)
    THEN <<"Amount cannot exceed KES 1,000,000">>
    ELSE <<>>

\* Lines 314-327: the message of the failed check, <<>> when all pass.
validate(body) ==
    IF Falsy(body.amount) \/ LessThan(body.amount, MinAmount)
    THEN <<"Amount must be at least KES 100">>
    ELSE IF GreaterThan(body.amount, MaxAmount)
    THEN <<"Amount cannot exceed KES 1,000,000">>
    ELSE <<>>

\* transactionIdOf without the Date.now() part.
transactionIdOfNoTime(t, sfx) ==
    [ prefix |-> "TXN_", time |-> 0, suffix |-> sfx, upper |-> TRUE ]

\* Line 330: 'TXN_' + Date.now() + '_' + suffix.toUpperCase()
transactionIdOf(t, sfx) ==
    [ prefix |-> "TXN_", time |-> t, suffix |-> sfx, upper |-> TRUE ]

\* Line 331: 'REF_' + Date.now()
referenceOf(t) ==
    [ prefix |-> "REF_", time |-> t, suffix |-> 0, upper |-> FALSE ]

\* feesOf with the two fees exchanged.
feesOfSwapped(withdrawalMethod) ==
    IF withdrawalMethod = S("bank") THEN OtherFee ELSE BankFee

\* Line 332
feesOf(withdrawalMethod) ==
    IF withdrawalMethod = S("bank") THEN BankFee ELSE OtherFee

\* Line 333
netAmountOf(amount, fees) == Minus(parseFloat(amount), fees)

\* route with the default branch sent to the other adapter.
routeDefaultStripe(paymentMethod) ==
    IF paymentMethod = S("stripe") THEN "stripe"
    ELSE IF paymentMethod = S("flutterwave") THEN "flutterwave"
    ELSE "stripe"

\* Lines 339-346: the adapter the request is routed to.
route(paymentMethod) ==
    IF paymentMethod = S("stripe") THEN "stripe"
    ELSE IF paymentMethod = S("flutterwave") THEN "flutterwave"
    ELSE "flutterwave"

\* Math.round(amount * 100), line 397.
Cents(amount) ==
    IF ToNumber(amount).t = "num" THEN Num(ToNumber(amount).n * 100) ELSE NaN

\* Lines 396-404: the call processStripePayment makes.
stripeCall(amount, description, transactionId) ==
    [ adapter |-> "stripe", amount |-> Cents(amount), account |-> Undef,
      name |-> description, reference |-> transactionId ]

\* Lines 422-439: the call processFlutterwavePayment makes.
flutterwaveCall(amount, phoneNumber, accountName, transactionId) ==
    [ adapter |-> "flutterwave", amount |-> parseFloat(amount),
      account |-> OrElse(phoneNumber, S("1234567890")),
      name |-> OrElse(accountName, S("Beneficiary")),
      reference |-> transactionId ]

\* Lines 339-346: the adapter calls the handler makes for a routed request.
adapterCalls(body, transactionId) ==
    IF route(body.paymentMethod) = "stripe"
    THEN << stripeCall(body.amount, body.accountName, transactionId) >>
    ELSE << flutterwaveCall(body.amount, body.phoneNumber, body.accountName,
                            transactionId) >>

\* What the upstream APIs answer and how they fail.
StripeIntents == { [ id |-> "pi_1", secret |-> "pi_1_secret" ] }
FlutterwaveAnswers == { [ id |-> "tr_1", status |-> "success" ] }
UpstreamErrors == { "timeout", "declined" }

\* Lines 408-413 and 443-448: the adapter's result.
paymentResultOf(adapter, answer, transactionId) ==
    IF adapter = "stripe"
    THEN [ gateway |-> "stripe", id |-> answer.id, status |-> "processing",
           clientSecret |-> answer.secret, reference |-> NoId ]
    ELSE [ gateway |-> "flutterwave", id |-> answer.id,
           status |-> answer.status, clientSecret |-> "",
           reference |-> transactionId ]

\* Lines 414-416 and 449-452: the message of the Error the adapter throws.
adapterError(adapter, reason) ==
    IF adapter = "stripe" THEN <<"Stripe error: ", reason>>
    ELSE <<"Flutterwave processing failed">>

\* paymentFailure without the adapter's message.
paymentFailureGeneric(message) ==
    Failure(400, <<"Payment processing failed">>)

\* Lines 347-353: the response to a failed adapter call.
paymentFailure(message) ==
    Failure(400, <<"Payment processing failed: ">> \o message)

\* Lines 357-365: the event published on withdrawal-channel.
notification(f) ==
    [ transactionId |-> f.transactionId, amount |-> f.body.amount,
      method |-> f.body.withdrawalMethod, status |-> "completed",
      accountName |-> f.body.accountName, reference |-> f.reference ]

\* Lines 370-381: the success response.
successResponse(f) ==
    [ NoResponse EXCEPT
        !.status = 200,
        !.keys = { "success", "message", "transactionId", "reference",
                   "paymentGateway", "fees", "netAmount",
                   "estimatedCompletion", "paymentDetails" },
        !.success = TRUE,
        !.message = <<"Withdrawal of KES ">> \o ToStr(f.body.amount)
                    \o <<" processed successfully">>,
        !.transactionId = f.transactionId,
        !.reference = f.reference,
        !.paymentGateway = OrElse(f.body.paymentMethod, S("flutterwave")),
        !.fees = Num(f.fees),
        !.netAmount = f.netAmount,
        !.paymentDetails = f.paymentResult ]

\* Lines 383-389: the response to anything else thrown in the handler.
internalFailure(message) ==
    Failure(500, <<"Internal server error: ">> \o message)

\* afterNotification with a rejected pusher.trigger reaching the outer catch.
afterNotificationThrows(f, outcome) ==
    IF outcome = "rejected"
    THEN << internalFailure(<<"pusher.trigger rejected">>) >>
    ELSE << successResponse(f) >>

\* afterNotification answering again after a rejected pusher.trigger was
\* answered in its catch block.
afterNotificationTwice(f, outcome) ==
    IF outcome = "rejected"
    THEN << internalFailure(<<"pusher.trigger rejected">>),
            successResponse(f) >>
    ELSE << successResponse(f) >>

\* Lines 366-368: the responses sent once pusher.trigger has settled.
afterNotification(f, outcome) == << successResponse(f) >>

(***************************************************************************)
(* The demo handler, lines 49-148.                                         *)
(***************************************************************************)
\* Lines 55-99: the message of the failed check, <<>> when all pass.
demoValidate(body) ==
    IF Falsy(body.amount) \/ LessThan(body.amount, MinAmount)
    THEN <<"Amount must be at least KES 100">>
    ELSE IF GreaterThan(body.amount, demoBalance)
    THEN <<"Insufficient balance. Available: KES ">>
         \o ToStr(Num(demoBalance))
    ELSE IF GreaterThan(body.amount, MaxAmount)
    THEN <<"Maximum withdrawal is KES 1,000,000">>
    ELSE IF Falsy(body.method) \/ body.method \notin {S("bank"), S("mpesa")}
    THEN <<"Please select withdrawal method (bank or mpesa)">>
    ELSE IF /\ body.method = S("bank")
            /\ (Falsy(body.accountDetails) \/ Falsy(body.accountName))
    THEN <<"Bank account details required">>
    ELSE IF /\ body.method = S("mpesa")
            /\ (Falsy(body.phoneNumber) \/ ~TenDigits(body.phoneNumber))
    THEN <<"Valid 10-digit M-Pesa number required">>
    ELSE <<>>

\* Line 105: `txn_${Date.now()}_${suffix}`
demoTransactionIdOf(t, sfx) ==
    [ prefix |-> "txn_", time |-> t, suffix |-> sfx, upper |-> FALSE ]

\* Line 128: `REF${Date.now()}`
demoReferenceOf(t) ==
    [ prefix |-> "REF", time |-> t, suffix |-> 0, upper |-> FALSE ]

\* Line 108
demoFeesOf(method) == IF method = S("bank") THEN BankFee ELSE OtherFee

\* Line 109
demoNetAmountOf(amount, fees) == Minus(ToNumber(amount), fees)

\* Lines 118-129: the success response.
demoSuccess(body, id, t) ==
    [ NoResponse EXCEPT
        !.status = 200,
        !.keys = { "success", "message", "transactionId", "amount", "fees",
                   "netAmount", "method", "status", "timestamp",
                   "reference" },
        !.success = TRUE,
        !.message = <<"Withdrawal of KES ">> \o ToStr(body.amount)
                    \o <<" processed successfully!">>,
        !.transactionId = id,
        !.amount = body.amount,
        !.fees = Num(demoFeesOf(body.method)),
        !.netAmount = demoNetAmountOf(body.amount, demoFeesOf(body.method)),
        !.method = body.method,
        !.state = "completed",
        !.reference = demoReferenceOf(t) ]

\* Lines 133-138: the response to a failed (simulated) payment.
demoPaymentFailure(id) ==
    [ NoResponse EXCEPT
        !.status = 200,
        !.keys = { "success", "message", "transactionId", "status" },
        !.message = <<"Payment processing failed. Please try again.">>,
        !.transactionId = id,
        !.state = "failed" ]

\* res.json({success: false, message}) of lines 57, 64, 71, 78, 87, 94, 143.
demoFailure(message) == Failure(200, message)

(***************************************************************************)
(* State.                                                                  *)
(***************************************************************************)
VARIABLES
    now,        \* what Date.now() reads
    fr,         \* fr[r]: the handler invocation of request r and its locals
    calls,      \* calls[r]: the upstream calls the adapters made for r
    published,  \* published[r]: the pusher.trigger calls made for r
    sent,       \* sent[r]: the responses written for r
    trace       \* trace[r]: the stages r has passed

\* fr[r].idAt and fr[r].idSuffix are the Date.now() and Math.random() values
\* read on lines 330 and 105; fr[r].pusher is how pusher.trigger settled.
\* The stages of trace[r] name the places of the handler r has passed:
\* Received its entry, ValidationFailed a return of lines 316-326 (57-97),
\* Validated line 327 (99), FeesComputed line 333 (109), ProviderInvoked the
\* call of lines 339-346, ProviderSucceeded its return, ProviderFailed the
\* catch of line 347, Notified the end of lines 356-368 whether
\* pusher.trigger resolved or rejected, InternalError the catch of line 383
\* (141), Responded a res.json call.

vars == <<now, fr, calls, published, sent, trace>>

NoFrame ==
    [ pc |-> "idle", handler |-> "", body |-> AbsentBody,
      idAt |-> 0, idSuffix |-> 0, transactionId |-> NoId,
      reference |-> NoId, fees |-> 0, netAmount |-> Undef, gateway |-> "",
      paymentResult |-> NoDetails, paymentError |-> <<>>, pusher |-> "" ]

Init ==
    /\ now = 0
    /\ fr = [r \in Reqs |-> NoFrame]
    /\ calls = [r \in Reqs |-> <<>>]
    /\ published = [r \in Reqs |-> <<>>]
    /\ sent = [r \in Reqs |-> <<>>]
    /\ trace = [r \in Reqs |-> <<>>]

\* The wall clock advances.
Tick ==
    /\ now < MaxClock
    /\ now' = now + 1
    /\ UNCHANGED <<fr, calls, published, sent, trace>>

\* Lines 310-346: the handler from its entry to its first await.
Withdraw(r) ==
    /\ fr[r].pc = "idle"
    /\ \E body \in GatewayInputs(r), sfx \in 1..MaxRand :
       IF ~body.present
       THEN /\ fr' = [fr EXCEPT ![r] = [NoFrame EXCEPT !.pc = "responded",
                         !.handler = "gateway", !.body = body]]
            /\ sent' = [sent EXCEPT ![r] =
                         <<internalFailure(<<"Cannot destructure req.body">>)>>]
            /\ trace' = [trace EXCEPT ![r] =
                         <<"Received", "InternalError", "Responded">>]
            /\ UNCHANGED calls
       ELSE IF validate(body) # <<>>
       THEN /\ fr' = [fr EXCEPT ![r] = [NoFrame EXCEPT !.pc = "responded",
                         !.handler = "gateway", !.body = body]]
            /\ sent' = [sent EXCEPT ![r] = <<Failure(400, validate(body))>>]
            /\ trace' = [trace EXCEPT ![r] =
                         <<"Received", "ValidationFailed", "Responded">>]
            /\ UNCHANGED calls
       ELSE LET id == transactionIdOf(now, sfx)
                fees == feesOf(body.withdrawalMethod)
            IN /\ fr' = [fr EXCEPT ![r] = [NoFrame EXCEPT
                            !.pc = "awaitProvider", !.handler = "gateway",
                            !.body = body, !.idAt = now, !.idSuffix = sfx,
                            !.transactionId = id,
                            !.reference = referenceOf(now), !.fees = fees,
                            !.netAmount = netAmountOf(body.amount, fees),
                            !.gateway = route(body.paymentMethod)]]
               /\ calls' = [calls EXCEPT ![r] = adapterCalls(body, id)]
               /\ trace' = [trace EXCEPT ![r] =
                            <<"Received", "Validated", "FeesComputed",
                              "ProviderInvoked">>]
               /\ UNCHANGED sent
    /\ UNCHANGED <<now, published>>

\* The upstream call answers: the adapter returns (lines 406-413, 441-448)
\* and the handler goes on to pusher.trigger (lines 355-365).
ProviderResolves(r) ==
    /\ fr[r].pc = "awaitProvider"
    /\ \E answer \in (IF fr[r].gateway = "stripe" THEN StripeIntents
                      ELSE FlutterwaveAnswers) :
       LET f == [fr[r] EXCEPT !.pc = "awaitPusher",
                   !.paymentResult =
                       paymentResultOf(fr[r].gateway, answer,
                                       fr[r].transactionId)]
       IN /\ fr' = [fr EXCEPT ![r] = f]
          /\ published' = [published EXCEPT ![r] = @ \o <<notification(f)>>]
    /\ trace' = [trace EXCEPT ![r] = @ \o <<"ProviderSucceeded">>]
    /\ UNCHANGED <<now, calls, sent>>

\* The upstream call fails: the adapter throws (lines 414-416, 449-452) and
\* the handler answers (lines 347-353).
ProviderRejects(r) ==
    /\ fr[r].pc = "awaitProvider"
    /\ \E reason \in UpstreamErrors :
       LET message == adapterError(fr[r].gateway, reason)
       IN /\ fr' = [fr EXCEPT ![r].pc = "responded",
                               ![r].paymentError = message]
          /\ sent' = [sent EXCEPT ![r] = @ \o <<paymentFailure(message)>>]
    /\ trace' = [trace EXCEPT ![r] = @ \o <<"ProviderFailed", "Responded">>]
    /\ UNCHANGED <<now, calls, published>>

\* pusher.trigger settles, resolved or rejected (lines 366-381).
PusherSettles(r, outcome) ==
    /\ fr[r].pc = "awaitPusher"
    /\ fr' = [fr EXCEPT ![r].pc = "responded", ![r].pusher = outcome]
    /\ sent' = [sent EXCEPT ![r] = @ \o afterNotification(fr[r], outcome)]
    /\ trace' = [trace EXCEPT ![r] = @ \o <<"Notified", "Responded">>]
    /\ UNCHANGED <<now, calls, published>>

\* Lines 49-102: the demo handler from its entry to its await.
WithdrawDemo(r) ==
    /\ fr[r].pc = "idle"
    /\ \E body \in DemoInputs(r) :
       IF ~body.present
       THEN /\ fr' = [fr EXCEPT ![r] = [NoFrame EXCEPT !.pc = "responded",
                         !.handler = "demo", !.body = body]]
            /\ sent' = [sent EXCEPT ![r] =
                         <<demoFailure(<<"System error: ",
                                         "Cannot destructure req.body">>)>>]
            /\ trace' = [trace EXCEPT ![r] =
                         <<"Received", "InternalError", "Responded">>]
       ELSE IF demoValidate(body) # <<>>
       THEN /\ fr' = [fr EXCEPT ![r] = [NoFrame EXCEPT !.pc = "responded",
                         !.handler = "demo", !.body = body]]
            /\ sent' = [sent EXCEPT ![r] = <<demoFailure(demoValidate(body))>>]
            /\ trace' = [trace EXCEPT ![r] =
                         <<"Received", "ValidationFailed", "Responded">>]
       ELSE /\ fr' = [fr EXCEPT ![r] = [NoFrame EXCEPT !.pc = "awaitDelay",
                         !.handler = "demo", !.body = body]]
            /\ trace' = [trace EXCEPT ![r] = <<"Received", "Validated">>]
            /\ UNCHANGED sent
    /\ UNCHANGED <<now, calls, published>>

\* Lines 104-139: the demo handler once its delay has elapsed; isSuccess is
\* Math.random() > 0.1.
DelayElapses(r) ==
    /\ fr[r].pc = "awaitDelay"
    /\ \E sfx \in 1..MaxRand, isSuccess \in BOOLEAN :
       LET id == demoTransactionIdOf(now, sfx)
           fees == demoFeesOf(fr[r].body.method)
       IN /\ fr' = [fr EXCEPT ![r].pc = "responded",
                               ![r].idAt = now, ![r].idSuffix = sfx,
                               ![r].transactionId = id,
                               ![r].reference =
                                   IF isSuccess THEN demoReferenceOf(now)
                                   ELSE NoId,
                               ![r].fees = fees,
                               ![r].netAmount =
                                   demoNetAmountOf(fr[r].body.amount, fees)]
          /\ sent' = [sent EXCEPT ![r] = @ \o
                        << IF isSuccess THEN demoSuccess(fr[r].body, id, now)
                           ELSE demoPaymentFailure(id) >>]
    /\ trace' = [trace EXCEPT ![r] = @ \o <<"FeesComputed", "Responded">>]
    /\ UNCHANGED <<now, calls, published>>

Next ==
    \/ Tick
    \/ \E r \in Reqs : Withdraw(r)
    \/ \E r \in Reqs : ProviderResolves(r)
    \/ \E r \in Reqs : ProviderRejects(r)
    \/ \E r \in Reqs : PusherSettles(r, "resolved")
    \/ \E r \in Reqs : PusherSettles(r, "rejected")
    \/ \E r \in Reqs : WithdrawDemo(r)
    \/ \E r \in Reqs : DelayElapses(r)

Spec == Init /\ [][Next]_vars

\* An awaited call that settles resumes its handler, and every call the
\* handlers await is taken to settle: the upstream API and the notifier
\* answer, fail or time out, and the timer fires.
FairSpec ==
    /\ Spec
    /\ \A r \in Reqs :
         /\ WF_vars(ProviderResolves(r) \/ ProviderRejects(r))
         /\ WF_vars(PusherSettles(r, "resolved") \/ PusherSettles(r, "rejected"))
         /\ WF_vars(DelayElapses(r))

(***************************************************************************)
(* Vocabulary of the properties.                                           *)
(***************************************************************************)
Entered(r) == fr[r].handler # "" /\ fr[r].body.present
Responded(r) == fr[r].pc = "responded"

\* The withdrawal method and the account field as each handler names them.
MethodOf(r) ==
    IF fr[r].handler = "demo" THEN fr[r].body.method
    ELSE fr[r].body.withdrawalMethod
AccountOf(r) ==
    IF fr[r].handler = "demo" THEN fr[r].body.accountDetails
    ELSE fr[r].body.accountNumber

AmountIsNumber(r) == fr[r].body.amount.t = "num"
AmountValue(r) == fr[r].body.amount.n

TooLowMessages == { <<"Amount must be at least KES 100">> }
TooHighMessages ==
    { <<"Amount cannot exceed KES 1,000,000">>,
      <<"Maximum withdrawal is KES 1,000,000">> }
BalanceMessages == { <<"Insufficient balance. Available: KES ">>
                     \o ToStr(Num(demoBalance)) }
AmountMessages == TooLowMessages \cup TooHighMessages \cup BalanceMessages
PhoneMessage == <<"Valid 10-digit M-Pesa number required">>
BankMessage == <<"Bank account details required">>

\* r was answered with one failure response whose message is in msgs, and
\* nothing was sent to an adapter or to the notifier for it.
RejectedWith(r, msgs) ==
    /\ Len(sent[r]) = 1
    /\ ~sent[r][1].success
    /\ sent[r][1].message \in msgs
    /\ calls[r] = <<>>
    /\ published[r] = <<>>

\* C1: in both handlers, a request whose amount is below 100 is rejected
\* with the minimum-amount message and one whose amount is above 1,000,000
\* with the maximum-amount message, in both cases with no adapter call and
\* no notification; 100 and 1,000,000 are not rejected by the minimum or
\* the maximum check.
C1_AmountOutsideRangeRejected ==
    \A r \in Reqs :
        Entered(r) /\ AmountIsNumber(r) =>
            /\ AmountValue(r) < MinAmount => RejectedWith(r, TooLowMessages)
            /\ AmountValue(r) > MaxAmount => RejectedWith(r, TooHighMessages)
            /\ AmountValue(r) \in {MinAmount, MaxAmount} =>
                 \A i \in 1..Len(sent[r]) :
                     sent[r][i].message
                         \notin TooLowMessages \cup TooHighMessages

\* The part of C1 the gateway handler meets.
GatewayAmountOutsideRangeRejected ==
    \A r \in Reqs :
        Entered(r) /\ AmountIsNumber(r) /\ fr[r].handler = "gateway" =>
            /\ AmountValue(r) < MinAmount => RejectedWith(r, TooLowMessages)
            /\ AmountValue(r) > MaxAmount => RejectedWith(r, TooHighMessages)
            /\ AmountValue(r) \in {MinAmount, MaxAmount} =>
                 calls[r] # <<>>

\* C2: in both handlers, a request with withdrawalMethod mpesa whose
\* phoneNumber is absent or is not exactly 10 digits goes to no adapter and
\* is answered success:false, with the 10-digit message unless an amount
\* check rejected it first.
C2_InvalidPhoneRejected ==
    \A r \in Reqs :
        /\ Entered(r)
        /\ MethodOf(r) = S("mpesa")
        /\ (Falsy(fr[r].body.phoneNumber) \/ ~TenDigits(fr[r].body.phoneNumber))
        => /\ calls[r] = <<>>
           /\ Responded(r)
           /\ RejectedWith(r, AmountMessages \cup {PhoneMessage})

\* C3: in both handlers, a request with withdrawalMethod bank in which
\* accountName or the account number is absent goes to no adapter and is
\* answered success:false, with the bank-details message unless an amount
\* check rejected it first.
C3_MissingBankDetailsRejected ==
    \A r \in Reqs :
        /\ Entered(r)
        /\ MethodOf(r) = S("bank")
        /\ (Falsy(fr[r].body.accountName) \/ Falsy(AccountOf(r)))
        => /\ calls[r] = <<>>
           /\ Responded(r)
           /\ RejectedWith(r, AmountMessages \cup {BankMessage})

\* The gateway handler has passed the checks of lines 314-327 for r.
Validated(r) ==
    /\ Entered(r)
    /\ fr[r].handler = "gateway"
    /\ ~(Len(sent[r]) > 0 /\ sent[r][1].status = 400
         /\ sent[r][1].message \in TooLowMessages \cup TooHighMessages)

\* C4: every request the gateway handler has validated has made exactly one
\* adapter call: to the Stripe adapter when paymentMethod is "stripe", to
\* the Flutterwave adapter for every other paymentMethod, absent or unknown.
C4_ProviderSelection ==
    \A r \in Reqs :
        Validated(r) =>
            /\ Len(calls[r]) = 1
            /\ calls[r][1].adapter =
                 IF fr[r].body.paymentMethod = S("stripe") THEN "stripe"
                 ELSE "flutterwave"

C4_Witness ==
    \E r \in Reqs :
        /\ Validated(r) /\ Responded(r)
        /\ fr[r].body.paymentMethod = S("paypal")
        /\ calls[r][1].adapter = "flutterwave"
        /\ \E q \in Reqs :
             /\ Validated(q) /\ fr[q].body.paymentMethod = S("stripe")
             /\ calls[q][1].adapter = "stripe"

\* The adapter call of r has failed.
ProviderFailed(r) == fr[r].paymentError # <<>>

\* C5: once the adapter call of a request has failed, the request is
\* answered with one 400 success:false response whose message carries the
\* adapter's error, nothing is published for it, and the failed call is the
\* only adapter call made for it.
C5_FailFast ==
    \A r \in Reqs :
        ProviderFailed(r) =>
            /\ Responded(r)
            /\ Len(sent[r]) = 1
            /\ sent[r][1].status = 400
            /\ ~sent[r][1].success
            /\ sent[r][1].message =
                 <<"Payment processing failed: ">> \o fr[r].paymentError
            /\ published[r] = <<>>
            /\ Len(calls[r]) = 1
            /\ calls[r][1].adapter = fr[r].gateway

C5_Witness ==
    \E r \in Reqs :
        /\ ProviderFailed(r)
        /\ fr[r].gateway = "stripe"
        /\ sent[r][1].message =
             <<"Payment processing failed: ", "Stripe error: ", "timeout">>

\* C6: a request whose adapter call succeeded is answered with the one
\* success response built from what the handler held before it notified
\* (the transactionId it gave the adapter, reference, fees, netAmount, the
\* adapter's result), with HTTP 200, whether pusher.trigger resolved or
\* rejected.
C6_NotifierFailureNonFatal ==
    \A r \in Reqs :
        fr[r].pusher \in {"resolved", "rejected"} =>
            /\ Len(sent[r]) = 1
            /\ sent[r][1].status = 200
            /\ sent[r][1].success
            /\ sent[r][1].transactionId = calls[r][1].reference
            /\ sent[r][1].transactionId = published[r][1].transactionId
            /\ sent[r][1].reference = published[r][1].reference
            /\ sent[r][1].fees = Num(feesOf(fr[r].body.withdrawalMethod))
            /\ sent[r][1].netAmount = fr[r].netAmount
            /\ sent[r][1].paymentDetails = fr[r].paymentResult
            /\ sent[r][1].paymentDetails.gateway = calls[r][1].adapter

C6_Witness ==
    \E r \in Reqs :
        /\ fr[r].pusher = "rejected"
        /\ Responded(r)
        /\ sent[r][1].success
        /\ \E q \in Reqs : fr[q].pusher = "resolved" /\ sent[q][1].success

\* C7: in every success response to a request whose amount is a number,
\* fees is 50 when the withdrawal method is bank and 25 when it is mpesa,
\* and netAmount is the amount minus that fee.
C7_Fees ==
    \A r \in Reqs :
        \A i \in 1..Len(sent[r]) :
            sent[r][i].success /\ AmountIsNumber(r) =>
                /\ MethodOf(r) = S("bank") => sent[r][i].fees = Num(50)
                /\ MethodOf(r) = S("mpesa") => sent[r][i].fees = Num(25)
                /\ MethodOf(r) \in {S("bank"), S("mpesa")} =>
                     /\ sent[r][i].fees.t = "num"
                     /\ sent[r][i].netAmount =
                          Num(AmountValue(r) - sent[r][i].fees.n)

C7_Witness ==
    /\ \E r \in Reqs :
         /\ fr[r].handler = "gateway" /\ Len(sent[r]) = 1
         /\ sent[r][1].success
         /\ MethodOf(r) = S("mpesa")
         /\ fr[r].body.amount = Num(1000000)
         /\ sent[r][1].netAmount = Num(999975)
    /\ \E r \in Reqs :
         /\ fr[r].handler = "gateway" /\ Len(sent[r]) = 1
         /\ sent[r][1].success
         /\ MethodOf(r) = S("bank")
         /\ sent[r][1].netAmount = Num(50)

InTrace(r, stage) == \E i \in 1..Len(trace[r]) : trace[r][i] = stage

\* The payment of r failed: the adapter call (gateway handler) or the
\* simulated payment (demo handler).
PaymentFailed(r) ==
    \/ ProviderFailed(r)
    \/ \E i \in 1..Len(sent[r]) : sent[r][i].state = "failed"

\* C8: in both handlers every response carries success and message; a
\* validation failure is answered 400 success:false, a payment failure 400
\* success:false, an internal failure 500 success:false, and only a
\* validated request whose payment succeeded is answered success:true.
C8_ResponseClassification ==
    \A r \in Reqs :
        \A i \in 1..Len(sent[r]) :
            /\ {"success", "message"} \subseteq sent[r][i].keys
            /\ InTrace(r, "ValidationFailed") =>
                 sent[r][i].status = 400 /\ ~sent[r][i].success
            /\ PaymentFailed(r) =>
                 sent[r][i].status = 400 /\ ~sent[r][i].success
            /\ InTrace(r, "InternalError") =>
                 sent[r][i].status = 500 /\ ~sent[r][i].success
            /\ sent[r][i].success =>
                 InTrace(r, "Validated") /\ ~PaymentFailed(r)

\* The part of C8 the gateway handler meets.
GatewayResponseClassification ==
    \A r \in Reqs :
        fr[r].handler = "gateway" =>
            \A i \in 1..Len(sent[r]) :
                /\ {"success", "message"} \subseteq sent[r][i].keys
                /\ InTrace(r, "ValidationFailed") =>
                     sent[r][i].status = 400 /\ ~sent[r][i].success
                /\ PaymentFailed(r) =>
                     sent[r][i].status = 400 /\ ~sent[r][i].success
                /\ InTrace(r, "InternalError") =>
                     sent[r][i].status = 500 /\ ~sent[r][i].success
                /\ sent[r][i].success =>
                     /\ validate(fr[r].body) = <<>>
                     /\ fr[r].paymentResult # NoDetails
                     /\ ~PaymentFailed(r)

HasId(r) == fr[r].transactionId # NoId

\* C9: no two requests are given the same transactionId.
C9_TransactionIdsUnique ==
    \A r1, r2 \in Reqs :
        r1 # r2 /\ HasId(r1) /\ HasId(r2) =>
            fr[r1].transactionId # fr[r2].transactionId

\* C9 as amended: two requests are given different transactionIds whenever
\* they are served by different handlers, read different Date.now() values
\* or draw different random suffixes.
C9_IdsDifferUnlessSameInstantAndSuffix ==
    \A r1, r2 \in Reqs :
        /\ r1 # r2 /\ HasId(r1) /\ HasId(r2)
        /\ \/ fr[r1].handler # fr[r2].handler
           \/ fr[r1].idAt # fr[r2].idAt
           \/ fr[r1].idSuffix # fr[r2].idSuffix
        => fr[r1].transactionId # fr[r2].transactionId

C9_Witness ==
    \E r1, r2 \in Reqs :
        /\ r1 # r2 /\ HasId(r1) /\ HasId(r2)
        /\ fr[r1].handler = "gateway" /\ fr[r2].handler = "gateway"
        /\ fr[r1].idSuffix = fr[r2].idSuffix
        /\ fr[r1].idAt # fr[r2].idAt
        /\ Responded(r1) /\ Responded(r2)

IsPrefix(p, q) == Len(p) <= Len(q) /\ SubSeq(q, 1, Len(p)) = p

SuccessPath ==
    << "Received", "Validated", "FeesComputed", "ProviderInvoked",
       "ProviderSucceeded", "Notified", "Responded" >>
ProviderFailedPath ==
    << "Received", "Validated", "FeesComputed", "ProviderInvoked",
       "ProviderFailed", "Responded" >>
ValidationFailedPath == << "Received", "ValidationFailed", "Responded" >>
InternalErrorPath == << "Received", "InternalError", "Responded" >>

ByGateway(r) == fr[r].handler = "gateway"

\* The stages of r so far are the start of one of the paths, r has been
\* sent one response if it has reached Responded and none otherwise, and r
\* has no transactionId if its validation failed.
OnPaths(r, paths) ==
    /\ \E p \in paths : IsPrefix(trace[r], p)
    /\ Len(sent[r]) = IF InTrace(r, "Responded") THEN 1 ELSE 0
    /\ InTrace(r, "Responded") <=> Responded(r)
    /\ InTrace(r, "ValidationFailed") =>
         /\ ~HasId(r)
         /\ \A i \in 1..Len(sent[r]) : sent[r][i].transactionId = NoId

\* No request goes back: its stages and its responses only grow.
NoWayBack ==
    \A r \in Reqs :
        /\ IsPrefix(trace[r], trace'[r])
        /\ IsPrefix(sent[r], sent'[r])

NegativeNetAmountForStringAmount ==
    \E r \in Reqs :
        /\ ByGateway(r) /\ Len(sent[r]) = 1
        /\ sent[r][1].success
        /\ fr[r].body.amount = Str(<<"0", "x", "4", "0", "0">>)
        /\ sent[r][1].netAmount = Num(0 - BankFee)

\* C12: in every success response of the gateway handler, paymentGateway
\* names the adapter that was invoked, which is the one paymentDetails.gateway
\* names, for every paymentMethod: absent, known or unrecognised.
C12_GatewayNamesAdapter ==
    \A r \in Reqs :
        \A i \in 1..Len(sent[r]) :
            ByGateway(r) /\ sent[r][i].success =>
                /\ Len(calls[r]) = 1
                /\ sent[r][i].paymentDetails.gateway = calls[r][1].adapter
                /\ sent[r][i].paymentGateway =
                     S(sent[r][i].paymentDetails.gateway)

\* The same for the requests whose paymentMethod is absent, "stripe" or
\* "flutterwave".
GatewayNamesAdapterForKnownMethods ==
    \A r \in Reqs :
        \A i \in 1..Len(sent[r]) :
            /\ ByGateway(r) /\ sent[r][i].success
            /\ fr[r].body.paymentMethod \in
                 {Undef, S("stripe"), S("flutterwave")}
            => /\ Len(calls[r]) = 1
               /\ sent[r][i].paymentDetails.gateway = calls[r][1].adapter
               /\ sent[r][i].paymentGateway =
                    S(sent[r][i].paymentDetails.gateway)
====
